---- MODULE Spec2Model ----
(***************************************************************************)
(* Model of TrafficSimulation (src/src/trafficSimulation.py) and Vehicle   *)
(* (src/src/vehicle.py), and of the lane-list Simulation                   *)
(* (src/src/simulation.py) with Car and CarFactory (src/src/cars.py).      *)
(*                                                                         *)
(* Quantities are fixed-point integers:                                    *)
(*   position, length, gap      centimetres                                *)
(*   velocity                   centimetres / second                       *)
(*   acceleration               centimetres / second^2                     *)
(*   time, dt, time_headway     tenths of a second                         *)
(*   politeness                 tenths                                     *)
(* Divisions round towards minus infinity (\div).                          *)
(***************************************************************************)
EXTENDS Integers, Sequences, FiniteSets, TLC

VARIABLES road_length, lanes_count, dt, time, vehicles, scheduled_vehicles,
          lane_changes, average_speeds, prev_lanes, pc, idx,
          n_vehicles, driver_distribution, driver_types,
          original_scheduled_vehicles, positional_distractions, simulation

vars == << road_length, lanes_count, dt, time, vehicles, scheduled_vehicles,
           lane_changes, average_speeds, prev_lanes, pc, idx,
           n_vehicles, driver_distribution, driver_types,
           original_scheduled_vehicles, positional_distractions, simulation >>

(* what the constructor and its caller fix for the whole run *)
config == << road_length, lanes_count, dt, n_vehicles, driver_distribution,
             driver_types, original_scheduled_vehicles, positional_distractions >>

(***************************** bounds **************************************)
MaxTime == 30
MaxLanes == 2
MaxInitVehicles == 2
MaxScheduled == 2
MaxPopulation == 3
IdmRatioCap == 30000
MaxEpisodeTime == 100
MaxSimulationTime == 30

(************************* program constants *******************************)
Infinity == 1000000
NoneId == -2
CloneId == -1
DefaultRoadLength == 100000
DefaultLength == 500
GapFloor == 10
SpawnClearance == 2000
SpawnShift == 2500
MaxAttempts == 5
InitClearance == 1000
CheckInterval == 10

DriverTypes == {"AGGRESSIVE", "NORMAL", "CAUTIOUS", "POLITE", "SUBMISSIVE", "OBSTACLE"}

Min(a, b) == IF a < b THEN a ELSE b
Max(a, b) == IF a > b THEN a ELSE b
Abs(a) == IF a < 0 THEN -a ELSE a

ISqrt(n) == CHOOSE r \in 0..1000 : r * r <= n /\ (r + 1) * (r + 1) > n

(* Vehicle.set_driver_parameters *)
time_headway ==
  [d \in DriverTypes |->
     CASE d = "AGGRESSIVE" -> 15 [] d = "NORMAL" -> 15 [] d = "CAUTIOUS" -> 22
       [] d = "POLITE" -> 15 [] d = "SUBMISSIVE" -> 25 [] d = "OBSTACLE" -> 0]
min_gap ==
  [d \in DriverTypes |->
     CASE d = "AGGRESSIVE" -> 150 [] d = "NORMAL" -> 200 [] d = "CAUTIOUS" -> 300
       [] d = "POLITE" -> 200 [] d = "SUBMISSIVE" -> 350 [] d = "OBSTACLE" -> 0]
max_acceleration ==
  [d \in DriverTypes |->
     CASE d = "AGGRESSIVE" -> 200 [] d = "NORMAL" -> 150 [] d = "CAUTIOUS" -> 120
       [] d = "POLITE" -> 150 [] d = "SUBMISSIVE" -> 100 [] d = "OBSTACLE" -> 0]
comfortable_deceleration ==
  [d \in DriverTypes |->
     CASE d = "AGGRESSIVE" -> 300 [] d = "NORMAL" -> 200 [] d = "CAUTIOUS" -> 150
       [] d = "POLITE" -> 200 [] d = "SUBMISSIVE" -> 150 [] d = "OBSTACLE" -> 0]
politeness ==
  [d \in DriverTypes |->
     CASE d = "AGGRESSIVE" -> 1 [] d = "NORMAL" -> 3 [] d = "CAUTIOUS" -> 3
       [] d = "POLITE" -> 7 [] d = "SUBMISSIVE" -> 8 [] d = "OBSTACLE" -> 0]
changing_threshold ==
  [d \in DriverTypes |->
     CASE d = "AGGRESSIVE" -> 0 [] d = "NORMAL" -> 10 [] d = "CAUTIOUS" -> 20
       [] d = "POLITE" -> 20 [] d = "SUBMISSIVE" -> 30 [] d = "OBSTACLE" -> Infinity]
safe_deceleration ==
  [d \in DriverTypes |->
     CASE d = "AGGRESSIVE" -> 500 [] d = "NORMAL" -> 400 [] d = "CAUTIOUS" -> 300
       [] d = "POLITE" -> 400 [] d = "SUBMISSIVE" -> 250 [] d = "OBSTACLE" -> 0]
right_bias ==
  [d \in DriverTypes |->
     CASE d = "AGGRESSIVE" -> 10 [] d = "NORMAL" -> 30 [] d = "CAUTIOUS" -> 40
       [] d = "POLITE" -> 40 [] d = "SUBMISSIVE" -> 50 [] d = "OBSTACLE" -> 0]
(* 2 * np.sqrt(max_acceleration * comfortable_deceleration), vehicle.py:189 *)
TwoSqrtAB ==
  [d \in DriverTypes |-> 2 * ISqrt(max_acceleration[d] * comfortable_deceleration[d])]

(* Vehicle.__init__ *)
Vehicle(id, position, velocity, lane, desired_velocity, driver_type, can_be_distracted) ==
  [id |-> id, position |-> position, velocity |-> velocity, lane |-> lane,
   desired_velocity |-> desired_velocity, driver_type |-> driver_type,
   length |-> DefaultLength, acceleration |-> 0,
   obstacle_start_time |-> 0, obstacle_end_time |-> Infinity,
   is_active |-> TRUE,
   can_be_distracted |-> can_be_distracted, is_distracted |-> FALSE,
   distraction_start_time |-> 0, distraction_duration |-> 0,
   last_distraction_check |-> 0]

(* Python's None for an absent leader / follower *)
None == [id |-> NoneId]
IsNone(v) == v.id = NoneId

(* Vehicle.idm_acceleration *)
idm_free(self) ==
  LET r  == (self.velocity * 10000) \div self.desired_velocity
      r2 == (r * r) \div 10000
      r4 == (r2 * r2) \div 10000
  IN  (max_acceleration[self.driver_type] * (10000 - r4)) \div 10000

idm_gap(self, lead, rl) ==
  LET gap == lead.position - self.position - lead.length
  IN  IF 2 * gap < -lead.length THEN gap + rl
      ELSE IF gap < 0 THEN gap + rl
      ELSE gap

idm_acceleration(self, lead, rl) ==
  IF self.driver_type = "OBSTACLE" THEN 0
  ELSE IF IsNone(lead) THEN idm_free(self)
  ELSE
    LET d       == self.driver_type
        gap     == idm_gap(self, lead, rl)
        delta_v == self.velocity - lead.velocity
        s_star  == min_gap[d] +
                   Max(0, (self.velocity * time_headway[d]) \div 10 +
                          (self.velocity * delta_v) \div TwoSqrtAB[d])
        q       == Min((s_star * 1000) \div Max(gap, GapFloor), IdmRatioCap)
        q2      == (q * q) \div 1000
        a_int   == -((max_acceleration[d] * q2) \div 1000)
    IN  idm_free(self) + a_int

(* variant: the distance is not adjusted for the circular boundary *)
NeighborDistance_NoWrap(self, other, rl) == other.position - self.position

(* Vehicle.find_neighbors: index into vs of the leader / follower, 0 for None *)
NeighborDistance(self, other, rl) ==
  LET distance == other.position - self.position
  IN  IF 2 * distance > rl THEN distance - rl
      ELSE IF 2 * distance < -rl THEN distance + rl
      ELSE distance

NeighborCandidates(self, vs, lane) ==
  {j \in 1..Len(vs) : vs[j].id # self.id /\ vs[j].lane = lane /\ vs[j].is_active}

FirstNearest(S, distance) ==
  IF S = {} THEN 0
  ELSE CHOOSE j \in S :
         \A k \in S : distance[j] < distance[k]
                        \/ (distance[j] = distance[k] /\ j <= k)

find_lead(self, vs, lane, rl) ==
  LET C == NeighborCandidates(self, vs, lane)
      D == [j \in C |-> NeighborDistance(self, vs[j], rl)]
  IN  FirstNearest({j \in C : D[j] > 0}, D)

find_follow(self, vs, lane, rl) ==
  LET C == NeighborCandidates(self, vs, lane)
      D == [j \in C |-> NeighborDistance(self, vs[j], rl)]
  IN  FirstNearest({j \in C : D[j] < 0}, [j \in C |-> Abs(D[j])])

At(vs, j) == IF j = 0 THEN None ELSE vs[j]


(* the hypothetical self placed in the target lane, vehicle.py:295-303, 316-324 *)
self_clone(self, lane) ==
  Vehicle(CloneId, self.position, self.velocity, lane, self.desired_velocity,
          self.driver_type, TRUE)

(* gap to the new leader as is_lane_change_safe computes it, vehicle.py:283-287 *)
safe_gap_to_leader(self, lead_target, rl) ==
  LET gap == lead_target.position - self.position - lead_target.length
  IN  IF gap < 0 THEN gap + rl ELSE gap

(* road length used for the follower's hypothetical acceleration:             *)
(* idm_acceleration is called without road_length, so its default applies     *)
FollowerRoadLength(rl) == DefaultRoadLength

(* Vehicle.is_lane_change_safe *)
is_lane_change_safe(self, lead_target, follow_target, rl) ==
  /\ IsNone(lead_target) \/
       safe_gap_to_leader(self, lead_target, rl) >= min_gap[self.driver_type]
  /\ IsNone(follow_target) \/
       idm_acceleration(follow_target, self_clone(self, follow_target.lane),
                        FollowerRoadLength(rl))
         >= -safe_deceleration[self.driver_type]

(* Vehicle.calculate_lane_change_advantage *)
calculate_lane_change_advantage(self, current_acc, lead_current, follow_current, lead_target, follow_target, target_lane, rl) ==
  LET clone    == self_clone(self, target_lane)
      new_acc  == idm_acceleration(clone, lead_target, DefaultRoadLength)
      acc_gain == new_acc - current_acc
      disadvantage_follower ==
        IF IsNone(follow_target) THEN 0
        ELSE idm_acceleration(follow_target, lead_target, DefaultRoadLength)
             - idm_acceleration(follow_target, clone, DefaultRoadLength)
      disadvantage_old_follower ==
        IF IsNone(follow_current) THEN 0
        ELSE Max(0, idm_acceleration(follow_current, self, DefaultRoadLength)
                    - idm_acceleration(follow_current, lead_current, DefaultRoadLength))
  IN  acc_gain - (politeness[self.driver_type] *
                    (disadvantage_follower + disadvantage_old_follower)) \div 10

(* the adjacent lanes MOBIL looks at, in the order of the loop, vehicle.py:214-218 *)
possible_lanes(self, K) ==
  (IF self.lane > 0 THEN << self.lane - 1 >> ELSE << >>) \o
  (IF self.lane < K - 1 THEN << self.lane + 1 >> ELSE << >>)

(* advantage of one target lane including right-lane bias, vehicle.py:232-239 *)
lane_advantage(self, vs, target_lane, rl) ==
  calculate_lane_change_advantage(
      self, self.acceleration,
      At(vs, find_lead(self, vs, self.lane, rl)),
      At(vs, find_follow(self, vs, self.lane, rl)),
      At(vs, find_lead(self, vs, target_lane, rl)),
      At(vs, find_follow(self, vs, target_lane, rl)),
      target_lane, rl)
  + (IF target_lane > self.lane THEN right_bias[self.driver_type] ELSE 0)

lane_is_safe(self, vs, target_lane, rl) ==
  is_lane_change_safe(self, At(vs, find_lead(self, vs, target_lane, rl)),
                      At(vs, find_follow(self, vs, target_lane, rl)), rl)

(* variant: a lane worth a change replaces the best lane found so far        *)
(* without being compared with it                                            *)
RECURSIVE mobil_loop_LastWorth(_, _, _, _, _, _, _)
mobil_loop_LastWorth(self, vs, rl, lanes, k, best_lane, max_advantage) ==
  IF k > Len(lanes) THEN best_lane
  ELSE
    LET target_lane == lanes[k]
    IN  IF ~lane_is_safe(self, vs, target_lane, rl)
        THEN mobil_loop_LastWorth(self, vs, rl, lanes, k + 1, best_lane, max_advantage)
        ELSE
          LET advantage == lane_advantage(self, vs, target_lane, rl)
          IN  IF advantage > 0 /\ advantage > changing_threshold[self.driver_type]
              THEN mobil_loop_LastWorth(self, vs, rl, lanes, k + 1, target_lane, advantage)
              ELSE mobil_loop_LastWorth(self, vs, rl, lanes, k + 1, best_lane, max_advantage)

(* the loop over the candidate lanes, vehicle.py:220-243 *)
RECURSIVE mobil_loop(_, _, _, _, _, _, _)
mobil_loop(self, vs, rl, lanes, k, best_lane, max_advantage) ==
  IF k > Len(lanes) THEN best_lane
  ELSE
    LET target_lane == lanes[k]
    IN  IF ~lane_is_safe(self, vs, target_lane, rl)
        THEN mobil_loop(self, vs, rl, lanes, k + 1, best_lane, max_advantage)
        ELSE
          LET advantage == lane_advantage(self, vs, target_lane, rl)
          IN  IF advantage > max_advantage /\
                 advantage > changing_threshold[self.driver_type]
              THEN mobil_loop(self, vs, rl, lanes, k + 1, target_lane, advantage)
              ELSE mobil_loop(self, vs, rl, lanes, k + 1, best_lane, max_advantage)

(* Vehicle.mobil_decide_lane_change *)
mobil_decide_lane_change(self, vs, K, rl) ==
  IF self.driver_type = "OBSTACLE" THEN self.lane
  ELSE IF self.is_distracted THEN self.lane
  ELSE mobil_loop(self, vs, rl, possible_lanes(self, K), 1, self.lane, 0)

(* variant: a distraction, once started, is never ended *)
check_distraction_NeverEnds(self, current_time, draw, duration) ==
  IF self.driver_type = "OBSTACLE" \/ ~self.can_be_distracted THEN self
  ELSE IF self.is_distracted THEN self
  ELSE IF current_time - self.last_distraction_check >= CheckInterval
  THEN IF draw
       THEN [self EXCEPT !.last_distraction_check = current_time,
                         !.is_distracted = TRUE,
                         !.distraction_start_time = current_time,
                         !.distraction_duration = duration]
       ELSE [self EXCEPT !.last_distraction_check = current_time]
  ELSE self

(* variant: the onset is drawn in every tick, whatever the time since the    *)
(* last draw                                                                 *)
check_distraction_EveryTick(self, current_time, draw, duration) ==
  IF self.driver_type = "OBSTACLE" \/ ~self.can_be_distracted THEN self
  ELSE IF self.is_distracted
  THEN IF current_time >= self.distraction_start_time + self.distraction_duration
       THEN [self EXCEPT !.is_distracted = FALSE]
       ELSE self
  ELSE IF draw
       THEN [self EXCEPT !.last_distraction_check = current_time,
                         !.is_distracted = TRUE,
                         !.distraction_start_time = current_time,
                         !.distraction_duration = duration]
       ELSE [self EXCEPT !.last_distraction_check = current_time]

(* Vehicle.check_distraction; draw and duration are the two random results *)
check_distraction(self, current_time, draw, duration) ==
  IF self.driver_type = "OBSTACLE" \/ ~self.can_be_distracted THEN self
  ELSE IF self.is_distracted
  THEN IF current_time >= self.distraction_start_time + self.distraction_duration
       THEN [self EXCEPT !.is_distracted = FALSE]
       ELSE self
  ELSE IF current_time - self.last_distraction_check >= CheckInterval
  THEN IF draw
       THEN [self EXCEPT !.last_distraction_check = current_time,
                         !.is_distracted = TRUE,
                         !.distraction_start_time = current_time,
                         !.distraction_duration = duration]
       ELSE [self EXCEPT !.last_distraction_check = current_time]
  ELSE self

(* variant: the lower limit of the velocity is forgotten *)
ClampVelocity_NoFloor(v, desired_velocity) == Min(v, 2 * desired_velocity)

(* velocity limit of the normal path, vehicle.py:380-381 *)
ClampVelocity(v, desired_velocity) == Max(0, Min(v, 2 * desired_velocity))

(* the distracted path's safety override, vehicle.py:384-394 *)
emergency_braking(self, lead, rl) ==
  /\ ~IsNone(lead)
  /\ safe_gap_to_leader(self, lead, rl)
       < min_gap[self.driver_type] + self.velocity

emergency_deceleration(self, step) ==
  Min((comfortable_deceleration[self.driver_type] * 15) \div 10,
      (self.velocity * 10) \div step)

(* variant: a distracted driver's velocity follows IDM like any other *)
updated_velocity_IgnoresDistraction(self, lead, step, rl) ==
  ClampVelocity(self.velocity + (self.acceleration * step) \div 10,
                self.desired_velocity)

(* velocity after the tick, vehicle.py:379-394 *)
updated_velocity(self, lead, step, rl) ==
  IF ~self.is_distracted
  THEN ClampVelocity(self.velocity + (self.acceleration * step) \div 10,
                     self.desired_velocity)
  ELSE IF emergency_braking(self, lead, rl)
       THEN self.velocity - (emergency_deceleration(self, step) * step) \div 10
       ELSE self.velocity

(* variant: the boundary test includes the end of the road itself *)
WrapPosition_AtEnd(position, rl) ==
  IF position >= rl THEN position - rl ELSE position

(* circular boundary, vehicle.py:400-401 *)
WrapPosition(position, rl) ==
  IF position > rl THEN position - rl ELSE position

(* vehicle.py:404: lane changes are considered only when not distracted and  *)
(* the random gate (random.random() < 0.1) opens                             *)
considers_lane_change(self, gate) == ~self.is_distracted /\ gate

(* variant: idm_acceleration leaves the value it computed for the ego also   *)
(* in the leader it was given                                                *)
update_WritesLeader(vs, i, step, K, rl, current_time, draw, duration, gate) ==
  LET self0 == vs[i]
  IN
  IF self0.driver_type = "OBSTACLE" /\
     ~(current_time >= self0.obstacle_start_time /\ current_time < self0.obstacle_end_time)
  THEN [vs EXCEPT ![i] = [self0 EXCEPT !.is_active = FALSE]]
  ELSE
    LET self1 == IF self0.driver_type = "OBSTACLE"
                 THEN [self0 EXCEPT !.is_active = TRUE] ELSE self0
        self2 == check_distraction(self1, current_time, draw, duration)
        l     == find_lead(self2, vs, self2.lane, rl)
        lead  == At(vs, l)
        self3 == [self2 EXCEPT !.acceleration = idm_acceleration(self2, lead, rl)]
        vs3   == IF l = 0 THEN vs ELSE [vs EXCEPT ![l].acceleration = self3.acceleration]
    IN
    IF self3.driver_type = "OBSTACLE"
    THEN [vs3 EXCEPT ![i] = self3]
    ELSE
      LET self4 == [self3 EXCEPT !.velocity = updated_velocity(self3, lead, step, rl)]
          self5 == [self4 EXCEPT !.position =
                      WrapPosition(self4.position + (self4.velocity * step) \div 10, rl)]
          vs5   == [vs3 EXCEPT ![i] = self5]
      IN  IF considers_lane_change(self5, gate)
          THEN [vs5 EXCEPT ![i].lane = mobil_decide_lane_change(self5, vs5, K, rl)]
          ELSE vs5

(* Vehicle.update for vs[i]; returns the new vehicle list *)
update(vs, i, step, K, rl, current_time, draw, duration, gate) ==
  LET self0 == vs[i]
  IN
  IF self0.driver_type = "OBSTACLE" /\
     ~(current_time >= self0.obstacle_start_time /\ current_time < self0.obstacle_end_time)
  THEN [vs EXCEPT ![i] = [self0 EXCEPT !.is_active = FALSE]]
  ELSE
    LET self1 == IF self0.driver_type = "OBSTACLE"
                 THEN [self0 EXCEPT !.is_active = TRUE] ELSE self0
        self2 == check_distraction(self1, current_time, draw, duration)
        lead  == At(vs, find_lead(self2, vs, self2.lane, rl))
        self3 == [self2 EXCEPT !.acceleration = idm_acceleration(self2, lead, rl)]
    IN
    IF self3.driver_type = "OBSTACLE"
    THEN [vs EXCEPT ![i] = self3]
    ELSE
      LET self4 == [self3 EXCEPT !.velocity = updated_velocity(self3, lead, step, rl)]
          self5 == [self4 EXCEPT !.position =
                      WrapPosition(self4.position + (self4.velocity * step) \div 10, rl)]
          vs5   == [vs EXCEPT ![i] = self5]
      IN  IF considers_lane_change(self5, gate)
          THEN [vs5 EXCEPT ![i].lane = mobil_decide_lane_change(self5, vs5, K, rl)]
          ELSE vs5

(* the loop of run_step over the vehicle list from index i on, in list       *)
(* order, trafficSimulation.py:221-223, for the draws in which no            *)
(* distraction starts and the lane-change gate stays shut                    *)
RECURSIVE update_from(_, _, _, _, _, _)
update_from(vs, i, step, K, rl, current_time) ==
  IF i > Len(vs) THEN vs
  ELSE update_from(update(vs, i, step, K, rl, current_time, FALSE, 0, FALSE),
                   i + 1, step, K, rl, current_time)


(****************************************************************************)
(* TrafficSimulation.deploy_scheduled_vehicle                                *)
(****************************************************************************)
(* list.pop(i), i counted from 1 *)
Pop(s, i) == SubSeq(s, 1, i - 1) \o SubSeq(s, i + 1, Len(s))

(* trafficSimulation.py:161-166: is some vehicle of the lane too close *)
spawn_overlap(vs, lane, position) ==
  \E j \in 1..Len(vs) :
     /\ vs[j].lane = lane
     /\ Abs(vs[j].position - position) < Max(vs[j].length, SpawnClearance)

(* variant: the next lane is taken without the modulo *)
end_of_road_NoModulo(position, lane, K, rl) ==
  IF position >= rl THEN [position |-> 0, lane |-> lane + 1]
  ELSE [position |-> position, lane |-> lane]

(* trafficSimulation.py:176-179: past the end of the road, next lane at x = 0 *)
end_of_road(position, lane, K, rl) ==
  IF position >= rl THEN [position |-> 0, lane |-> (lane + 1) % K]
  ELSE [position |-> position, lane |-> lane]

(* the while loop of trafficSimulation.py:157-181, entered at its test with  *)
(* overlap = True                                                            *)
RECURSIVE find_spawn(_, _, _, _, _, _)
find_spawn(vs, position, lane, attempts, K, rl) ==
  LET overlap == spawn_overlap(vs, lane, position)
      shifted == IF overlap THEN position + SpawnShift ELSE position
      next    == end_of_road(shifted, lane, K, rl)
  IN  IF overlap /\ attempts + 1 < MaxAttempts
      THEN find_spawn(vs, next.position, next.lane, attempts + 1, K, rl)
      ELSE [overlap |-> overlap, position |-> next.position, lane |-> next.lane]

(* variant: the id of a deployed vehicle restarts at 0 *)
new_vehicle_IdZero(vs, vehicle_info, spawn) ==
  Vehicle(0, spawn.position, (7 * vehicle_info.desired_velocity) \div 10,
          spawn.lane, vehicle_info.desired_velocity, vehicle_info.driver_type,
          vehicle_info.is_distracted)

(* trafficSimulation.py:190-202 *)
new_vehicle(vs, vehicle_info, spawn) ==
  Vehicle(Len(vs), spawn.position, (7 * vehicle_info.desired_velocity) \div 10,
          spawn.lane, vehicle_info.desired_velocity, vehicle_info.driver_type,
          vehicle_info.is_distracted)

(* variant: the loop goes on after a successful deployment *)
RECURSIVE deploy_loop_NoBreak(_, _, _, _, _, _, _)
deploy_loop_NoBreak(i, copy, sched, vs, current_time, K, rl) ==
  IF i > Len(copy) THEN [sched |-> sched, vehicles |-> vs, raised |-> FALSE]
  ELSE IF copy[i].deployment_time > current_time
  THEN deploy_loop_NoBreak(i + 1, copy, sched, vs, current_time, K, rl)
  ELSE
    LET spawn == find_spawn(vs, copy[i].initial_position, copy[i].lane, 0, K, rl)
        vs2   == IF spawn.overlap THEN vs
                 ELSE Append(vs, new_vehicle(vs, copy[i], spawn))
    IN  IF i > Len(sched)
        THEN [sched |-> sched, vehicles |-> vs2, raised |-> TRUE]
        ELSE deploy_loop_NoBreak(i + 1, copy, Pop(sched, i), vs2, current_time, K, rl)

(* the for loop over the copy scheduled_vehicles[:]; i is the enumerate index *)
(* counted from 1; pop(i) acts on the live list and raises IndexError when    *)
(* earlier pops have made it shorter than i                                   *)
RECURSIVE deploy_loop(_, _, _, _, _, _, _)
deploy_loop(i, copy, sched, vs, current_time, K, rl) ==
  IF i > Len(copy) THEN [sched |-> sched, vehicles |-> vs, raised |-> FALSE]
  ELSE IF copy[i].deployment_time > current_time
  THEN deploy_loop(i + 1, copy, sched, vs, current_time, K, rl)
  ELSE
    LET spawn == find_spawn(vs, copy[i].initial_position, copy[i].lane, 0, K, rl)
    IN  IF spawn.overlap
        THEN IF i > Len(sched)
             THEN [sched |-> sched, vehicles |-> vs, raised |-> TRUE]
             ELSE deploy_loop(i + 1, copy, Pop(sched, i), vs, current_time, K, rl)
        ELSE LET vs2 == Append(vs, new_vehicle(vs, copy[i], spawn))
             IN  IF i > Len(sched)
                 THEN [sched |-> sched, vehicles |-> vs2, raised |-> TRUE]
                 ELSE [sched |-> Pop(sched, i), vehicles |-> vs2, raised |-> FALSE]

deploy_scheduled_vehicle(sched, vs, current_time, K, rl) ==
  deploy_loop(1, sched, sched, vs, current_time, K, rl)

(****************************************************************************)
(* TrafficSimulation.__init__: the driver types of the initial population    *)
(****************************************************************************)
(* the keys of driver_distribution in the order of the dictionary *)
DistributionOrder == << "AGGRESSIVE", "NORMAL", "CAUTIOUS", "POLITE", "SUBMISSIVE" >>
DistributionTypes == {DistributionOrder[k] : k \in 1..Len(DistributionOrder)}

(* fractions are hundredths: int(fraction * n_vehicles), trafficSimulation.py:58-64 *)
truncated_count(distribution, d, n) == (distribution[d] * n) \div 100

RECURSIVE SumCounts(_, _)
SumCounts(count, k) ==
  IF k = 0 THEN 0 ELSE count[DistributionOrder[k]] + SumCounts(count, k - 1)

(* trafficSimulation.py:58-67 *)
num_each_driver_type(distribution, n) ==
  LET truncated == [d \in DistributionTypes |-> truncated_count(distribution, d, n)]
      total     == SumCounts(truncated, Len(DistributionOrder))
  IN  IF total # n
      THEN [truncated EXCEPT !["NORMAL"] = truncated["NORMAL"] + (n - total)]
      ELSE truncated

(* range(int(count)) is empty for a negative count *)
Repeat(d, count) == [j \in 1..(IF count > 0 THEN count ELSE 0) |-> d]

(* trafficSimulation.py:69-73: the list before the shuffle *)
RECURSIVE driver_type_list(_, _)
driver_type_list(count, k) ==
  IF k = 0 THEN << >>
  ELSE driver_type_list(count, k - 1) \o Repeat(DistributionOrder[k], count[DistributionOrder[k]])

(* random.shuffle, trafficSimulation.py:76: a permutation of the list; the   *)
(* permutations tried are the rotations by k places                          *)
shuffle(s, k) ==
  IF Len(s) = 0 THEN s
  ELSE [j \in 1..Len(s) |-> s[((j - 1 + k) % Len(s)) + 1]]

(****************************************************************************)
(* Initial configurations                                                    *)
(****************************************************************************)
RoadLengths == {4000}
TimeSteps == {10}
InitPositions == {1000}
InitDesiredVelocities == {3000}
InitDistributions ==
  {[d \in DistributionTypes |-> IF d = "NORMAL" THEN 100 ELSE 0]}
ShuffleDraws == {0, 1, 2}
InitCanBeDistracted == {FALSE}
DistractionDurations == {30}
EntryDesiredVelocity == 3000

(* TrafficSimulation.initialize_vehicles: n vehicles, random position and    *)
(* lane without overlap, 70 percent of the desired velocity                   *)
init_overlap(vs, lane, position) ==
  \E j \in 1..Len(vs) :
     /\ vs[j].lane = lane
     /\ Abs(vs[j].position - position) < Max(vs[j].length, InitClearance)

RECURSIVE initialize_vehicles(_, _, _)
initialize_vehicles(n, K, types) ==
  IF n = 0 THEN {<< >>}
  ELSE { Append(vs, Vehicle(n - 1, p, (7 * v0) \div 10, l, v0, types[n], c)) :
           << vs, p, l, v0, c >> \in
             { t \in initialize_vehicles(n - 1, K, types) \X InitPositions \X (0..(K - 1))
                     \X InitDesiredVelocities \X InitCanBeDistracted :
                 ~init_overlap(t[1], t[3], t[2]) } }

(* variant: an obstacle keeps the desired velocity typed into the form *)
vehicle_info_MovingObstacle(driver_type, lane, deployment_time, initial_position) ==
  [driver_type |-> driver_type, lane |-> lane,
   desired_velocity |-> EntryDesiredVelocity,
   deployment_time |-> deployment_time, initial_position |-> initial_position,
   is_distracted |-> TRUE]

(* an entry of the deployment list, simulationGUI.py:402-410: the lane is   *)
(* in 0..K-1, the position in 0..road_length, an obstacle has velocity 0     *)
vehicle_info(driver_type, lane, deployment_time, initial_position) ==
  [driver_type |-> driver_type, lane |-> lane,
   desired_velocity |-> IF driver_type = "OBSTACLE" THEN 0 ELSE EntryDesiredVelocity,
   deployment_time |-> deployment_time, initial_position |-> initial_position,
   is_distracted |-> TRUE]

(* the deployment list the entries are taken from, in this order: a car at  *)
(* the start of the road, a car at the very end of the last lane, an         *)
(* obstacle, and a late car one tick's travel before the end of the road     *)
DeploymentList(K, rl, step) ==
  << vehicle_info("NORMAL", 0, 0, 0),
     vehicle_info("NORMAL", K - 1, 0, rl),
     vehicle_info("OBSTACLE", K - 1, 0, 0),
     vehicle_info("NORMAL", 0, 10,
                  rl - (((7 * EntryDesiredVelocity) \div 10) * step) \div 10) >>

(* the lists obtained by leaving entries out *)
RECURSIVE SubSeqs(_)
SubSeqs(s) ==
  IF s = << >> THEN {<< >>}
  ELSE LET rest == SubSeqs(Tail(s))
       IN  rest \cup {<< Head(s) >> \o x : x \in rest}

(* no Simulation object (src/src/simulation.py) exists beside the world *)
NoSimulation == [num_lanes |-> 0]

(* original_scheduled_vehicles is an attribute that exists only once it has  *)
(* been assigned                                                             *)
Unassigned == [assigned |-> FALSE, value |-> << >>]
Assigned(q) == [assigned |-> TRUE, value |-> q]

(* a zone of the start screen's distraction form, backup/simulationGUI.py:   *)
(* 335-344, with the form's default slowness; slowness is in tenths          *)
PositionalDistractionLists ==
  {<< [position |-> 2000, range |-> 2000, slowness |-> 7,
       spawn_time |-> 0, duration |-> 300] >>}

(* the state after TrafficSimulation(...) and the assignment of the          *)
(* deployment list; original_scheduled_vehicles is assigned by the start     *)
(* screen's create_simulation or by run_simulation, and not by the           *)
(* constructor                                                               *)
Init ==
  /\ road_length \in RoadLengths
  /\ lanes_count \in 1..MaxLanes
  /\ dt \in TimeSteps
  /\ time = 0
  /\ n_vehicles \in 0..MaxInitVehicles
  /\ driver_distribution \in InitDistributions
  /\ \E k \in ShuffleDraws :
       driver_types = shuffle(driver_type_list(
                                num_each_driver_type(driver_distribution, n_vehicles),
                                Len(DistributionOrder)), k)
  /\ vehicles \in initialize_vehicles(n_vehicles, lanes_count, driver_types)
  /\ positional_distractions \in PositionalDistractionLists
  /\ scheduled_vehicles \in SubSeqs(DeploymentList(lanes_count, road_length, dt))
  /\ Len(scheduled_vehicles) <= MaxScheduled
  /\ Len(vehicles) + Len(scheduled_vehicles) <= MaxPopulation
  /\ original_scheduled_vehicles \in {Unassigned, Assigned(scheduled_vehicles)}
  /\ lane_changes = 0
  /\ average_speeds = << >>
  /\ prev_lanes = << >>
  /\ pc = "idle"
  /\ idx = 0
  /\ simulation = NoSimulation

(****************************************************************************)
(* TrafficSimulation.run_step, in three stages                               *)
(****************************************************************************)
(* trafficSimulation.py:216-219: deploy, then remember the lanes *)
Deploy ==
  /\ pc = "idle"
  /\ time < MaxTime
  /\ LET r == deploy_scheduled_vehicle(scheduled_vehicles, vehicles, time,
                                       lanes_count, road_length)
     IN  /\ vehicles' = r.vehicles
         /\ scheduled_vehicles' = r.sched
         /\ pc' = IF r.raised THEN "raised" ELSE "update"
         /\ prev_lanes' = IF r.raised THEN prev_lanes
                          ELSE [j \in 1..Len(r.vehicles) |-> r.vehicles[j].lane]
         /\ idx' = IF r.raised THEN 0 ELSE 1
  /\ UNCHANGED << config, simulation, time, lane_changes, average_speeds >>

(* trafficSimulation.py:221-223: one iteration of the loop over the vehicles *)
UpdateVehicle ==
  /\ pc = "update"
  /\ idx <= Len(vehicles)
  /\ \E draw \in BOOLEAN, duration \in DistractionDurations, gate \in BOOLEAN :
       vehicles' = update(vehicles, idx, dt, lanes_count, road_length, time,
                          draw, duration, gate)
  /\ idx' = idx + 1
  /\ UNCHANGED << config, simulation, time, scheduled_vehicles,
                  lane_changes, average_speeds, prev_lanes, pc >>

RECURSIVE SumVelocity(_, _)
SumVelocity(vs, n) == IF n = 0 THEN 0 ELSE vs[n].velocity + SumVelocity(vs, n - 1)

(* trafficSimulation.py:225-242: lane-change count, statistics, clock *)
Finish ==
  /\ pc = "update"
  /\ idx > Len(vehicles)
  /\ lane_changes' = lane_changes +
        Cardinality({j \in 1..Len(vehicles) : prev_lanes[j] # vehicles[j].lane})
  /\ average_speeds' = Append(average_speeds,
        IF Len(vehicles) > 0 THEN SumVelocity(vehicles, Len(vehicles)) \div Len(vehicles)
        ELSE 0)
  /\ time' = time + dt
  /\ pc' = "idle"
  /\ idx' = 0
  /\ prev_lanes' = << >>
  /\ UNCHANGED << config, simulation, vehicles, scheduled_vehicles >>

(* the value run_without_animation returns once its loop of run_step calls   *)
(* has ended, trafficSimulation.py:294-297 and 304-308                       *)
run_without_animation_result(vs) ==
  IF Len(vs) > 0 THEN SumVelocity(vs, Len(vs)) \div Len(vs) ELSE -1

(* TrafficSimulation.reset_simulation, called between two ticks (Reset       *)
(* button, key 0): the assignments before the read of                        *)
(* original_scheduled_vehicles take effect also when that attribute does not *)
(* exist and the read raises AttributeError                                  *)
reset_simulation ==
  /\ pc = "idle"
  /\ time' = 0
  /\ lane_changes' = 0
  /\ average_speeds' = << >>
  /\ IF original_scheduled_vehicles.assigned
     THEN /\ scheduled_vehicles' = original_scheduled_vehicles.value
          /\ vehicles' \in initialize_vehicles(n_vehicles, lanes_count, driver_types)
          /\ pc' = "idle"
     ELSE /\ scheduled_vehicles' = scheduled_vehicles
          /\ vehicles' = << >>
          /\ pc' = "reset raised"
  /\ UNCHANGED << config, simulation, prev_lanes, idx >>

Next == Deploy \/ UpdateVehicle \/ Finish \/ reset_simulation

Spec == Init /\ [][Next]_vars


(****************************************************************************)
(* The constructor's driver-type list on its own, for populations too large  *)
(* to be driven on the road of Spec                                          *)
(****************************************************************************)
Fractions == {0, 5, 10, 20, 30, 50, 51, 60}
PopulationSizes == {0, 1, 3, 7, 30, 100}

(* SimulationGUI.update_driver_distribution: five non-negative values with   *)
(* 0.99 <= sum <= 1.01                                                       *)
valid_distribution(distribution) ==
  LET total == SumCounts(distribution, Len(DistributionOrder))
  IN  /\ \A d \in DistributionTypes : distribution[d] >= 0
      /\ 99 <= total /\ total <= 101

InitDrivers ==
  /\ n_vehicles \in PopulationSizes
  /\ driver_distribution \in
       {d \in [DistributionTypes -> Fractions] : valid_distribution(d)}
  /\ driver_types = << >>
  /\ pc = "new"
  /\ road_length \in RoadLengths
  /\ lanes_count = 1
  /\ dt \in TimeSteps
  /\ time = 0
  /\ vehicles = << >>
  /\ scheduled_vehicles = << >>
  /\ original_scheduled_vehicles = Unassigned
  /\ positional_distractions = << >>
  /\ lane_changes = 0
  /\ average_speeds = << >>
  /\ prev_lanes = << >>
  /\ idx = 0
  /\ simulation = NoSimulation

(* trafficSimulation.py:58-76 *)
Construct ==
  /\ pc = "new"
  /\ \E k \in ShuffleDraws :
       driver_types' = shuffle(driver_type_list(
                                 num_each_driver_type(driver_distribution, n_vehicles),
                                 Len(DistributionOrder)), k)
  /\ pc' = "constructed"
  /\ UNCHANGED << road_length, lanes_count, dt, n_vehicles, driver_distribution,
                  original_scheduled_vehicles, positional_distractions,
                  simulation, time, vehicles, scheduled_vehicles, lane_changes,
                  average_speeds, prev_lanes, idx >>

NextDrivers == Construct

SpecDrivers == InitDrivers /\ [][NextDrivers]_vars


(****************************************************************************)
(* Worlds whose vehicles the caller has put on the road itself, run by the   *)
(* same run_step and reset_simulation: the constructor is called with        *)
(* n_vehicles = 0 and Vehicle objects are appended to the vehicle list       *)
(****************************************************************************)
(* a moving vehicle as TrafficSimulation creates them: 70 percent of the     *)
(* desired velocity, not open to distraction                                 *)
MovingVehicle(id, position, lane, driver_type) ==
  Vehicle(id, position, (7 * EntryDesiredVelocity) \div 10, lane,
          EntryDesiredVelocity, driver_type, FALSE)

(* Vehicle(..., driver_type=OBSTACLE, obstacle_start_time, obstacle_end_time), *)
(* vehicle.py:35-37: active from the start only if the start time is 0         *)
Obstacle(id, position, lane, start_time, end_time) ==
  [Vehicle(id, position, 0, lane, 0, "OBSTACLE", FALSE)
     EXCEPT !.obstacle_start_time = start_time,
            !.obstacle_end_time = end_time,
            !.is_active = (start_time = 0)]

(* three lanes: a car in the middle lane behind a standing obstacle, alone   *)
(* or with one more car in the left or in the right lane                     *)
ThreeLaneScenes ==
  { [lanes |-> 3, scheduled |-> << >>,
     vehicles |-> << MovingVehicle(0, 500, 1, d), Obstacle(1, 3000, 1, 0, Infinity) >> \o extra] :
      d \in {"AGGRESSIVE", "NORMAL"},
      extra \in {<< >>} \cup {<< MovingVehicle(2, p, l, "NORMAL") >> : p \in {500, 3000}, l \in {0, 2}} }

(* one lane with a car standing 10 m from the start, and a deployment list   *)
(* of any length taken from DeploymentList: the entry at the start of the    *)
(* road finds no free place, the one at the end of the road does             *)
DeployScenes(rl, step) ==
  { [lanes |-> 1, scheduled |-> q,
     vehicles |-> << MovingVehicle(0, 1000, 0, "NORMAL") >>] :
      q \in SubSeqs(DeploymentList(1, rl, step)) }

(* the activity windows given to an obstacle: always, [1 s, 2 s), [0, 1 s)   *)
(* and from 1 s on                                                           *)
ObstacleWindows == {<< 0, Infinity >>, << 10, 20 >>, << 0, 10 >>, << 10, Infinity >>}

(* one lane with a car and an obstacle 25 m ahead of it, the car before the  *)
(* obstacle in the vehicle list or behind it                                 *)
ObstacleScenes ==
  { [lanes |-> 1, scheduled |-> << >>,
     vehicles |-> << MovingVehicle(0, 500, 0, "NORMAL"),
                     Obstacle(1, 3000, 0, w[1], w[2]) >>] : w \in ObstacleWindows }
  \cup
  { [lanes |-> 1, scheduled |-> << >>,
     vehicles |-> << Obstacle(0, 3000, 0, w[1], w[2]),
                     MovingVehicle(1, 500, 0, "NORMAL") >>] : w \in ObstacleWindows }

Scenes(rl, step) == ThreeLaneScenes \cup DeployScenes(rl, step) \cup ObstacleScenes

InitScenes ==
  /\ road_length \in RoadLengths
  /\ dt \in TimeSteps
  /\ time = 0
  /\ \E s \in Scenes(road_length, dt) :
       /\ lanes_count = s.lanes
       /\ vehicles = s.vehicles
       /\ scheduled_vehicles = s.scheduled
  /\ n_vehicles = 0
  /\ driver_distribution \in InitDistributions
  /\ driver_types = << >>
  /\ positional_distractions = << >>
  /\ original_scheduled_vehicles \in {Unassigned, Assigned(scheduled_vehicles)}
  /\ lane_changes = 0
  /\ average_speeds = << >>
  /\ prev_lanes = << >>
  /\ pc = "idle"
  /\ idx = 0
  /\ simulation = NoSimulation

SpecScenes == InitScenes /\ [][Next]_vars


(****************************************************************************)
(* One vehicle alone on a one-lane road, followed over many ticks for        *)
(* several time steps: the course of its distraction episodes                *)
(****************************************************************************)
(* dt of 0.1 s, 0.5 s (the constructor's default), 0.7 s, 1 s and 3 s *)
EpisodeTimeSteps == {1, 5, 7, 10, 30}
(* random.uniform(3.0, 5.0), vehicle.py:435: both ends and the middle *)
EpisodeDurations == {30, 40, 50}

InitEpisodes ==
  /\ road_length \in RoadLengths
  /\ lanes_count = 1
  /\ dt \in EpisodeTimeSteps
  /\ time = 0
  /\ n_vehicles = 0
  /\ driver_distribution \in InitDistributions
  /\ driver_types = << >>
  /\ \E c \in BOOLEAN :
       vehicles \in { << Vehicle(0, 0, (7 * v0) \div 10, 0, v0, "NORMAL", c) >> :
                        v0 \in InitDesiredVelocities }
                    \cup { << Vehicle(0, 0, 0, 0, 0, "OBSTACLE", c) >> }
  /\ scheduled_vehicles = << >>
  /\ original_scheduled_vehicles = Unassigned
  /\ positional_distractions = << >>
  /\ lane_changes = 0
  /\ average_speeds = << >>
  /\ prev_lanes = << >>
  /\ pc = "idle"
  /\ idx = 0
  /\ simulation = NoSimulation

(* TrafficSimulation.run_step as a whole for a world of one vehicle and an   *)
(* empty deployment list: nothing is deployed, the one vehicle is updated,   *)
(* the statistics and the clock advance                                      *)
run_step ==
  /\ pc = "idle"
  /\ scheduled_vehicles = << >>
  /\ Len(vehicles) = 1
  /\ time < MaxEpisodeTime
  /\ \E draw \in BOOLEAN, duration \in EpisodeDurations, gate \in BOOLEAN :
       vehicles' = update(vehicles, 1, dt, lanes_count, road_length, time,
                          draw, duration, gate)
  /\ lane_changes' = lane_changes + (IF vehicles'[1].lane # vehicles[1].lane THEN 1 ELSE 0)
  /\ average_speeds' = Append(average_speeds, vehicles'[1].velocity)
  /\ time' = time + dt
  /\ UNCHANGED << config, simulation, scheduled_vehicles, prev_lanes, pc, idx >>

NextEpisodes == run_step

SpecEpisodes == InitEpisodes /\ [][NextEpisodes]_vars


(****************************************************************************)
(* TrafficSimulation(...) step by step, for configurations of every kind:    *)
(* the driver-type list, then the placement loop of initialize_vehicles      *)
(****************************************************************************)
(* road lengths of 0, 5 m and 20 m; time steps of 0 and 1 s; the distribution *)
(* of Init and one whose fractions sum to 2                                   *)
WorldRoadLengths == {0, 500, 2000}
WorldTimeSteps == {0, 10}
WorldDistributions ==
  InitDistributions \cup
  {[d \in DistributionTypes |-> IF d \in {"NORMAL", "AGGRESSIVE"} THEN 100 ELSE 0]}

(* random.uniform(0, road_length), trafficSimulation.py:90, on a grid of 5 m *)
PlacementPositions(rl) == {p \in {0, 500, 1000, 1500, 2000} : p <= rl}

InitWorld ==
  /\ road_length \in WorldRoadLengths
  /\ lanes_count \in 0..MaxLanes
  /\ dt \in WorldTimeSteps
  /\ n_vehicles \in (-1)..(MaxInitVehicles + 1)
  /\ driver_distribution \in WorldDistributions
  /\ driver_types = << >>
  /\ pc = "new"
  /\ time = 0
  /\ vehicles = << >>
  /\ scheduled_vehicles = << >>
  /\ original_scheduled_vehicles = Unassigned
  /\ positional_distractions = << >>
  /\ lane_changes = 0
  /\ average_speeds = << >>
  /\ prev_lanes = << >>
  /\ idx = 0
  /\ simulation = NoSimulation

(* trafficSimulation.py:58-80: the driver-type list; initialize_vehicles is  *)
(* entered only for n_vehicles > 0                                           *)
build_driver_types ==
  /\ pc = "new"
  /\ \E k \in ShuffleDraws :
       driver_types' = shuffle(driver_type_list(
                                 num_each_driver_type(driver_distribution, n_vehicles),
                                 Len(DistributionOrder)), k)
  /\ pc' = IF n_vehicles > 0 THEN "placing" ELSE "constructed"
  /\ UNCHANGED << road_length, lanes_count, dt, n_vehicles, driver_distribution,
                  original_scheduled_vehicles, positional_distractions,
                  simulation, time, vehicles, scheduled_vehicles, lane_changes,
                  average_speeds, prev_lanes, idx >>

(* one pass of the for loop of initialize_vehicles, trafficSimulation.py:    *)
(* 87-136: random.randint(0, lanes_count - 1) raises ValueError for an empty *)
(* range; otherwise position and lane are drawn again until they overlap no  *)
(* vehicle already placed, and the while loop has no other exit              *)
place_vehicle ==
  /\ pc = "placing"
  /\ Len(vehicles) < n_vehicles
  /\ IF lanes_count < 1
     THEN /\ pc' = "raised"
          /\ vehicles' = vehicles
     ELSE /\ \E position \in PlacementPositions(road_length), lane \in 0..(lanes_count - 1),
                v0 \in InitDesiredVelocities, c \in InitCanBeDistracted :
               /\ ~init_overlap(vehicles, lane, position)
               /\ vehicles' = Append(vehicles,
                     Vehicle(Len(vehicles), position, (7 * v0) \div 10, lane, v0,
                             driver_types[Len(vehicles) + 1], c))
          /\ pc' = IF Len(vehicles') = n_vehicles THEN "constructed" ELSE "placing"
  /\ UNCHANGED << config, simulation, time, scheduled_vehicles, lane_changes,
                  average_speeds, prev_lanes, idx >>

NextWorld == build_driver_types \/ place_vehicle

(* a draw that finds a free place is eventually made if there is one *)
SpecWorld == InitWorld /\ [][NextWorld]_vars /\ WF_vars(NextWorld)


(****************************************************************************)
(* Simulation (src/src/simulation.py) with Car and CarFactory                *)
(* (src/src/cars.py): the road of lane lists.  The variable simulation is    *)
(* the Simulation object; its field objects holds the Car objects in the     *)
(* order of their creation, and a lane list holds their places in it, so     *)
(* that one object can stand in a list twice.  Speeds are given in km/h and  *)
(* kept in cm/s; change_threshold, lane_change_bias are in cm/s^2,           *)
(* politeness_factor in tenths.  A list built element by element is written *)
(* << >> \o [k \in 1..n |-> e], the sequence with these elements.            *)
(****************************************************************************)
NoCar == 0
FreeRoadGap == 100000
NumLanesDefault == 3

KmhToCms(kmh) == (kmh * 1000) \div 36

(* CarFactory.create_vehicle: the parameters of a regular car, changed for   *)
(* the vehicle type and then for the driver type                             *)
BaseParameters ==
  [car_length |-> 500, desired_speed |-> 120, time_headway |-> 15, min_gap |-> 200,
   acceleration |-> 30, deceleration |-> 200, acceleration_exponent |-> 2,
   safe_deceleration_limit |-> 200, change_threshold |-> 50,
   lane_change_bias |-> 10, politeness_factor |-> 2]

vehicle_parameters(vehicle_type) ==
  CASE vehicle_type = "truck" ->
         [BaseParameters EXCEPT !.car_length = 1000, !.desired_speed = 90,
                                !.time_headway = 17, !.min_gap = 300,
                                !.acceleration = 25, !.deceleration = 200]
    [] vehicle_type = "motorcycle" ->
         [BaseParameters EXCEPT !.car_length = 250, !.desired_speed = 130,
                                !.time_headway = 10, !.min_gap = 150,
                                !.acceleration = 40, !.deceleration = 150]
    [] OTHER -> BaseParameters

driver_parameters(params, driver_type) ==
  CASE driver_type = "aggressive" ->
         [params EXCEPT !.desired_speed = 140, !.time_headway = 10, !.min_gap = 150,
                        !.acceleration = 40, !.deceleration = 300,
                        !.politeness_factor = 1]
    [] driver_type = "cautious" ->
         [params EXCEPT !.desired_speed = 100, !.time_headway = 20, !.min_gap = 300,
                        !.acceleration = 20, !.deceleration = 150,
                        !.politeness_factor = 3]
    [] OTHER -> params

(* Car.__init__ as called by CarFactory.create_vehicle; id is the value of   *)
(* Car.car_counter                                                           *)
create_vehicle(id, vehicle_type, driver_type, position, velocity, lane) ==
  LET params == driver_parameters(vehicle_parameters(vehicle_type), driver_type)
  IN  [id |-> id, vehicle_type |-> vehicle_type, driver_type |-> driver_type,
       position |-> position, velocity |-> KmhToCms(velocity), acceleration |-> 0,
       length |-> params.car_length,
       desired_speed |-> KmhToCms(params.desired_speed),
       time_headway |-> params.time_headway, min_gap |-> params.min_gap,
       max_acceleration |-> params.acceleration,
       comfortable_deceleration |-> params.deceleration,
       acceleration_exponent |-> params.acceleration_exponent,
       safe_deceleration_limit |-> params.safe_deceleration_limit,
       change_threshold |-> params.change_threshold,
       lane_change_bias |-> params.lane_change_bias,
       politeness_factor |-> params.politeness_factor,
       lane |-> Max(1, Min(lane, NumLanesDefault)),
       changed_lane_this_step |-> FALSE]

(* the element of a set of one element; Only({f(y) : y \in {e}}) is f(e) with  *)
(* e computed once, as a local variable of the code is                       *)
Only(S) == CHOOSE x \in S : TRUE

Square(x) == x * x

(* desired_gap in Car.compute_acceleration, cars.py:175-181 *)
desired_gap_of(back, front_velocity) ==
  back.min_gap + (back.velocity * back.time_headway) \div 10
    + (back.velocity * (back.velocity - front_velocity))
        \div (2 * ISqrt(back.max_acceleration * back.comfortable_deceleration))

(* desired_gap / max(gap, 0.1) in thousandths, cars.py:183 *)
gap_ratio(back, gap, front_velocity) ==
  Max(-IdmRatioCap,
      Min((desired_gap_of(back, front_velocity) * 1000) \div Max(gap, GapFloor),
          IdmRatioCap))

(* (velocity / desired_speed) ** acceleration_exponent in thousandths *)
speed_term(back) ==
  LET r2 == Square((back.velocity * 1000) \div back.desired_speed) \div 1000
  IN  IF back.acceleration_exponent = 2 THEN r2 ELSE Square(r2) \div 1000

(* Car.compute_acceleration *)
compute_acceleration(back, gap, front_velocity) ==
  (back.max_acceleration
     * (1000 - speed_term(back) - Square(gap_ratio(back, gap, front_velocity)) \div 1000))
    \div 1000

(* Car.update_acceleration; leading_car is NoCar for None *)
update_acceleration(objects, c, leading_car) ==
  LET self == objects[c]
      gap  == IF leading_car = NoCar THEN FreeRoadGap
              ELSE objects[leading_car].position - self.position
                     - objects[leading_car].length
      lead_velocity == IF leading_car = NoCar THEN self.velocity
                       ELSE objects[leading_car].velocity
  IN  compute_acceleration(self, gap, lead_velocity)

(* Car.update_position *)
update_position(self, step) ==
  LET new_velocity == Max(0, self.velocity + (self.acceleration * step) \div 10)
  IN  [self EXCEPT !.velocity = new_velocity,
                   !.position = self.position + (new_velocity * step) \div 10
                                  + (self.acceleration * step * step) \div 200]

(* list.index counted from 1, 0 when the value is not in the list *)
IndexOf(s, x) ==
  IF \E k \in 1..Len(s) : s[k] = x
  THEN CHOOSE k \in 1..Len(s) : s[k] = x /\ \A m \in 1..(k - 1) : s[m] # x
  ELSE 0

(* list.insert(i, x) with i counted from 0: at the end when i >= len *)
InsertAt(s, i, x) ==
  LET k == Min(i, Len(s))
  IN  SubSeq(s, 1, k) \o << x >> \o SubSeq(s, k + 1, Len(s))

(* list.remove(x): the first occurrence *)
RemoveFirst(s, x) == Pop(s, IndexOf(s, x))

(* Simulation.find_leading_car *)
find_leading_car(sim, c) ==
  LET lane_cars == sim.cars[sim.objects[c].lane]
      car_index == IndexOf(lane_cars, c)
  IN  IF car_index # 0 /\ car_index < Len(lane_cars)
      THEN lane_cars[car_index + 1] ELSE NoCar

(* the car of a lane list with the greatest position behind self, the last   *)
(* such car of the sorted list, cars.py:70-77                                *)
previous_car_of(objects, c, lane) ==
  LET S == {k \in 1..Len(lane) : objects[lane[k]].position < objects[c].position}
  IN  IF S = {} THEN NoCar
      ELSE lane[CHOOSE k \in S :
                  \A m \in S :
                     objects[lane[k]].position > objects[lane[m]].position
                       \/ (objects[lane[k]].position = objects[lane[m]].position /\ k >= m)]

(* cars.py:79-86 *)
safe_behind(objects, c, previous_car) ==
  \/ previous_car = NoCar
  \/ compute_acceleration(objects[c],
                          objects[c].position
                            - (objects[previous_car].position + objects[previous_car].length),
                          objects[c].velocity)
       >= -objects[previous_car].safe_deceleration_limit

(* Car.safe_lane_change *)
safe_lane_change(objects, c, lane) ==
  Only({ safe_behind(objects, c, previous_car) :
           previous_car \in {previous_car_of(objects, c, lane)} })

(* the first car of a lane list with the greatest position behind self, or   *)
(* the smallest position ahead of it, cars.py:95-99, 122-126, 141-145        *)
nearest_behind(objects, c, lane, not_self) ==
  LET S == {k \in 1..Len(lane) : objects[lane[k]].position < objects[c].position
                                   /\ (not_self => lane[k] # c)}
  IN  IF S = {} THEN NoCar
      ELSE lane[CHOOSE k \in S :
                  \A m \in S :
                     objects[lane[k]].position > objects[lane[m]].position
                       \/ (objects[lane[k]].position = objects[lane[m]].position /\ k <= m)]

nearest_ahead(objects, c, lane) ==
  LET S == {k \in 1..Len(lane) : objects[lane[k]].position > objects[c].position}
  IN  IF S = {} THEN NoCar
      ELSE lane[CHOOSE k \in S :
                  \A m \in S :
                     objects[lane[k]].position < objects[lane[m]].position
                       \/ (objects[lane[k]].position = objects[lane[m]].position /\ k <= m)]

(* cars.py:100-119: what the car behind in the new lane loses *)
acceleration_difference_new_lane(objects, self, previous_car_new_lane) ==
  IF previous_car_new_lane = NoCar THEN 0
  ELSE compute_acceleration(objects[previous_car_new_lane],
                            self.position - objects[previous_car_new_lane].position
                              - objects[previous_car_new_lane].length,
                            self.velocity)
       - compute_acceleration(objects[previous_car_new_lane],
                              self.position - objects[previous_car_new_lane].position
                                - self.length,
                              self.velocity)

(* cars.py:127-138: what the car behind in the current lane gains *)
acceleration_difference_current_lane(objects, self, previous_car_current_lane) ==
  IF previous_car_current_lane = NoCar THEN 0
  ELSE compute_acceleration(objects[previous_car_current_lane],
                            self.position - objects[previous_car_current_lane].position
                              - self.length,
                            self.velocity)
       - objects[previous_car_current_lane].acceleration

(* cars.py:146-155: what the car itself gains *)
acceleration_difference_self(objects, self, front_car_new_lane) ==
  (IF front_car_new_lane = NoCar
   THEN compute_acceleration(self, FreeRoadGap, self.velocity)
   ELSE compute_acceleration(self,
                             objects[front_car_new_lane].position - self.position
                               - objects[front_car_new_lane].length,
                             objects[front_car_new_lane].velocity))
  - self.acceleration

(* Car.compute_lane_utility *)
compute_lane_utility(objects, c, old_lane, new_lane) ==
  Only({ acceleration_difference_self(objects, objects[c], f)
           + (objects[c].politeness_factor *
                (acceleration_difference_new_lane(objects, objects[c], p)
                   + acceleration_difference_current_lane(objects, objects[c], q))) \div 10 :
         p \in {nearest_behind(objects, c, new_lane, FALSE)},
         q \in {nearest_behind(objects, c, old_lane, TRUE)},
         f \in {nearest_ahead(objects, c, new_lane)} })

(* Simulation.add_car for the car object c: list.insert(lane, car) *)
add_car(sim, lane, c) ==
  [sim EXCEPT !.cars[lane] = InsertAt(sim.cars[lane], lane, c)]

(* less than every utility: what a lane that is absent or unsafe offers *)
NoOffer == -1000000

(* simulation.py:84-88 and 92-96: the utility of a neighbour lane if there   *)
(* is one and the change into it is safe                                     *)
lane_offer(sim, c, lane, target) ==
  IF target >= 1 /\ target <= sim.num_lanes
       /\ safe_lane_change(sim.objects, c, sim.cars[target])
  THEN compute_lane_utility(sim.objects, c, sim.cars[lane], sim.cars[target])
  ELSE NoOffer

(* simulation.py:80-101: the left lane is weighed first, then the right one *)
pick_lane(lane, bar, current_utility, left_utility, right_utility) ==
  LET left_ok == left_utility > current_utility /\ left_utility > bar
      best_utility == IF left_ok THEN left_utility ELSE current_utility
      right_ok == right_utility > best_utility /\ right_utility > bar
  IN  IF right_ok THEN lane + 1 ELSE IF left_ok THEN lane - 1 ELSE lane

(* the lane a car of the given lane list moves to, simulation.py:80-101 *)
best_lane_of(sim, c, lane) ==
  Only({ pick_lane(lane,
                   sim.objects[c].change_threshold + sim.objects[c].lane_change_bias,
                   current_utility, left_utility, right_utility) :
         current_utility \in {compute_lane_utility(sim.objects, c, sim.cars[lane],
                                                   sim.cars[lane])},
         left_utility \in {lane_offer(sim, c, lane, lane - 1)},
         right_utility \in {lane_offer(sim, c, lane, lane + 1)} })

(* the place in the new lane list, simulation.py:112-117: before the first   *)
(* car that is not behind, counted from 0                                    *)
insertion_index(objects, c, lane) ==
  LET S == {k \in 1..Len(lane) : objects[c].position <= objects[lane[k]].position}
  IN  IF S = {} THEN Len(lane)
      ELSE (CHOOSE k \in S : \A m \in S : k <= m) - 1

(* simulation.py:104-122: the car leaves the list of its lane and enters the *)
(* list of the new one                                                       *)
move_to_lane(sim, lane, c, best_lane) ==
  Only({ [removed EXCEPT
            !.cars[best_lane] =
               InsertAt(removed.cars[best_lane],
                        insertion_index(removed.objects, c, removed.cars[best_lane]),
                        c),
            !.objects[c].changed_lane_this_step = TRUE] :
         removed \in { [sim EXCEPT !.cars[lane] = RemoveFirst(sim.cars[lane], c),
                                   !.objects[c].lane = best_lane] } })

(* one pass of the loop body for the car c found in the copy of the list of   *)
(* lane, simulation.py:76-122                                                *)
change_lane(sim, lane, c) ==
  IF sim.objects[c].changed_lane_this_step THEN sim
  ELSE Only({ IF best_lane = lane THEN sim ELSE move_to_lane(sim, lane, c, best_lane) :
                best_lane \in {best_lane_of(sim, c, lane)} })

(* the loop over the copy of one lane list, simulation.py:75 *)
RECURSIVE lane_changes_in(_, _, _, _)
lane_changes_in(sim, lane, copy, k) ==
  IF k > Len(copy) THEN sim
  ELSE Only({ lane_changes_in(next, lane, copy, k + 1) :
                next \in {change_lane(sim, lane, copy[k])} })

(* the loop over the lanes, simulation.py:74 *)
RECURSIVE lane_changes_from(_, _)
lane_changes_from(sim, lane) ==
  IF lane > sim.num_lanes THEN sim
  ELSE Only({ lane_changes_from(next, lane + 1) :
                next \in {lane_changes_in(sim, lane, sim.cars[lane], 1)} })

(* the cars standing in some lane list, and how often *)
Occurrences(sim, c) ==
  LET count[lane \in 0..sim.num_lanes] ==
        IF lane = 0 THEN 0
        ELSE count[lane - 1]
               + Cardinality({k \in 1..Len(sim.cars[lane]) : sim.cars[lane][k] = c})
  IN  count[sim.num_lanes]

(* simulation.py:124-127: the flag of every car of every lane list is reset *)
reset_changed_lane(sim) ==
  [sim EXCEPT !.objects = << >> \o
     [c \in 1..Len(sim.objects) |->
        IF Occurrences(sim, c) > 0
        THEN [sim.objects[c] EXCEPT !.changed_lane_this_step = FALSE]
        ELSE sim.objects[c]]]

(* Simulation.handle_lane_changes *)
handle_lane_changes(sim) ==
  IF ~sim.lane_changing THEN sim
  ELSE Only({ reset_changed_lane(changed) : changed \in {lane_changes_from(sim, 1)} })

(* simulation.py:141-145 and 172-176: the acceleration of every car of every *)
(* lane list                                                                 *)
update_accelerations(sim) ==
  [sim EXCEPT !.objects = << >> \o
     [c \in 1..Len(sim.objects) |->
        IF Occurrences(sim, c) > 0
        THEN [sim.objects[c] EXCEPT !.acceleration =
                update_acceleration(sim.objects, c, find_leading_car(sim, c))]
        ELSE sim.objects[c]]]

RECURSIVE update_position_times(_, _, _)
update_position_times(car, step, n) ==
  IF n = 0 THEN car
  ELSE Only({ update_position_times(moved, step, n - 1) :
                moved \in {update_position(car, step)} })

(* simulation.py:151-154 and 182-185: update_position once for every entry   *)
(* of every lane list                                                        *)
update_positions(sim) ==
  [sim EXCEPT !.objects = << >> \o
     [c \in 1..Len(sim.objects) |->
        update_position_times(sim.objects[c], sim.dt, Occurrences(sim, c))]]

(* Simulation.remove_cars_at_end *)
remove_cars_at_end(sim) ==
  [sim EXCEPT !.cars = << >> \o
     [lane \in 1..sim.num_lanes |->
        SelectSeq(sim.cars[lane],
                  LAMBDA c : sim.objects[c].position < sim.road_length)]]

(* what both kinds of update do once the inflow is dealt with,                *)
(* simulation.py:141-157 and 172-188                                         *)
move_cars(sim) ==
  Only({ remove_cars_at_end(moved) :
           moved \in { update_positions(changed) :
                         changed \in { handle_lane_changes(accelerated) :
                                         accelerated \in {update_accelerations(sim)} } } })

(* Simulation.add_to_lanes: one new car per lane, with the drawn types and   *)
(* speed; draws[lane] is what random gives for that lane                     *)
RECURSIVE add_to_lanes(_, _, _)
add_to_lanes(sim, draws, lane) ==
  IF lane > sim.num_lanes THEN sim
  ELSE
    LET c   == Len(sim.objects) + 1
        car == create_vehicle(c, draws[lane][1], draws[lane][2], 0, draws[lane][3], lane)
    IN  Only({ add_to_lanes(added, draws, lane + 1) :
                 added \in {add_car([sim EXCEPT !.objects = Append(sim.objects, car)],
                                    lane, c)} })

(* Simulation.__init__; inflow_period is 1.0 / inflow_rate, artificial_cars  *)
(* a list of entries [car, inflow_time] whose cars are the objects given     *)
Simulation(rl, inflow_period, step, num_lanes, lane_changing, objects, artificial_cars) ==
  [road_length |-> rl, inflow_period |-> inflow_period, dt |-> step,
   num_lanes |-> num_lanes, lane_changing |-> lane_changing,
   cars |-> << >> \o [lane \in 1..num_lanes |-> << >>],
   time |-> 0,
   next_inflow_time |-> IF Len(artificial_cars) > 0
                        THEN artificial_cars[1].inflow_time ELSE 0,
   artificial_cars |-> artificial_cars,
   artificial_car_index |-> 0,
   objects |-> objects]

(* the draws of random.choice and random.uniform in add_car *)
CarDraws == {<< "car", "aggressive", 120 >>, << "truck", "normal", 60 >>}
SimulationTimeSteps == {10}
SimulationRoadLengths == {6000}
InflowPeriods == {10, 20}

(* the cars a caller hands over as artificial cars: a car and a truck in     *)
(* lane 1 and a car in lane 2, entering 1 s after one another                *)
ArtificialObjects ==
  << create_vehicle(1, "car", "normal", 0, 120, 1),
     create_vehicle(2, "truck", "normal", 0, 60, 1),
     create_vehicle(3, "car", "aggressive", 0, 120, 2) >>
ArtificialInflowTimes == {10, 20}
ArtificialLists ==
  { << >> \o [k \in 1..n |-> [car |-> k, inflow_time |-> t]] :
      n \in 1..Len(ArtificialObjects), t \in ArtificialInflowTimes }

InitLanes ==
  /\ \E rl \in SimulationRoadLengths, step \in SimulationTimeSteps,
        num_lanes \in 2..NumLanesDefault, lane_changing \in BOOLEAN :
       \/ \E period \in InflowPeriods :
            simulation = Simulation(rl, period, step, num_lanes, lane_changing,
                                    << >>, << >>)
       \/ \E a \in ArtificialLists :
            simulation = Simulation(rl, 10, step, num_lanes, lane_changing,
                                    SubSeq(ArtificialObjects, 1, Len(a)), a)
  /\ road_length \in RoadLengths
  /\ lanes_count = 1
  /\ dt \in TimeSteps
  /\ time = 0
  /\ n_vehicles = 0
  /\ driver_distribution \in InitDistributions
  /\ driver_types = << >>
  /\ vehicles = << >>
  /\ scheduled_vehicles = << >>
  /\ original_scheduled_vehicles = Unassigned
  /\ positional_distractions = << >>
  /\ lane_changes = 0
  /\ average_speeds = << >>
  /\ prev_lanes = << >>
  /\ pc = "idle"
  /\ idx = 0

world_vars == << road_length, lanes_count, dt, time, vehicles, scheduled_vehicles,
             lane_changes, average_speeds, prev_lanes, pc, idx,
             n_vehicles, driver_distribution, driver_types,
             original_scheduled_vehicles, positional_distractions >>

(* Simulation.update without artificial cars, simulation.py:165-188 *)
simulation_update ==
  /\ simulation.num_lanes > 0
  /\ Len(simulation.artificial_cars) = 0
  /\ simulation.time < MaxSimulationTime
  /\ \E sim \in {[simulation EXCEPT !.time = simulation.time + simulation.dt]} :
       IF sim.time >= sim.next_inflow_time
       THEN \E draws \in [1..sim.num_lanes -> CarDraws] :
              \E added \in {add_to_lanes(sim, draws, 1)} :
                \E due \in {[added EXCEPT !.next_inflow_time =
                                             sim.next_inflow_time + sim.inflow_period]} :
                  simulation' = move_cars(due)
       ELSE simulation' = move_cars(sim)
  /\ UNCHANGED world_vars

(* Simulation.update with artificial cars: Simulation.artificial_update *)
artificial_update ==
  /\ simulation.num_lanes > 0
  /\ Len(simulation.artificial_cars) > 0
  /\ simulation.time < MaxSimulationTime
  /\ \E sim \in {[simulation EXCEPT !.time = simulation.time + simulation.dt]} :
       IF sim.time >= sim.next_inflow_time
       THEN LET i == sim.artificial_car_index
                c == sim.artificial_cars[i + 1].car
            IN  \E added \in {add_car(sim, sim.objects[c].lane, c)} :
                  \E due \in {IF i + 1 < Len(sim.artificial_cars)
                               THEN [added EXCEPT
                                       !.next_inflow_time =
                                          sim.next_inflow_time
                                            + sim.artificial_cars[i + 2].inflow_time,
                                       !.artificial_car_index = i + 1]
                               ELSE added} :
                    simulation' = move_cars(due)
       ELSE simulation' = move_cars(sim)
  /\ UNCHANGED world_vars

NextLanes == simulation_update \/ artificial_update

SpecLanes == InitLanes /\ [][NextLanes]_vars


(****************************************************************************)
(* Properties                                                                *)
(****************************************************************************)
TickDone == pc = "idle" /\ time > 0
Updating == pc = "update" /\ idx <= Len(vehicles)
Deploying == pc = "idle" /\ pc' \in {"update", "raised"}
Resetting == pc = "idle" /\ pc' \in {"idle", "reset raised"}
Indices == 1..Len(vehicles)

(* C1: after every completed tick, two distinct active vehicles in the same  *)
(* lane are more than 0.8 * (length_u / 2 + length_w / 2) apart              *)
C1_NoOverlap ==
  TickDone =>
    \A u, w \in Indices :
      (u # w /\ vehicles[u].is_active /\ vehicles[w].is_active
            /\ vehicles[u].lane = vehicles[w].lane)
        => 10 * Abs(vehicles[u].position - vehicles[w].position)
             > 4 * (vehicles[u].length + vehicles[w].length)

(* C2: at the end of every tick every vehicle has 0 <= x < road_length       *)
C2_PositionOnRoad ==
  TickDone =>
    \A j \in Indices :
      vehicles[j].position >= 0 /\ vehicles[j].position < road_length

(* C3 as stated: a vehicle whose integrated position reached road_length in  *)
(* a tick is not in the vehicle set when the tick ends.  At the end of a     *)
(* tick the integrated position of a vehicle of the set reached road_length  *)
(* exactly when it stands at or beyond it, or nearer to the start than the   *)
(* distance it has just travelled.                                           *)
C3_RetiredAtEnd ==
  TickDone =>
    \A j \in Indices :
      vehicles[j].driver_type # "OBSTACLE" =>
        /\ vehicles[j].position < road_length
        /\ vehicles[j].position - (vehicles[j].velocity * dt) \div 10 >= 0

(* C3 amended: a vehicle whose integrated position exceeds road_length stays *)
(* in the vehicle set with its position reduced by road_length, and no step  *)
(* of a tick removes or reorders a vehicle                                   *)
C3_WrappedNotRemoved ==
  [][ ~Resetting =>
        /\ Len(vehicles') >= Len(vehicles)
        /\ \A j \in Indices : vehicles'[j].id = vehicles[j].id
        /\ (Updating /\ vehicles[idx].driver_type # "OBSTACLE") =>
             LET integrated == vehicles[idx].position
                                 + (vehicles'[idx].velocity * dt) \div 10
             IN  vehicles'[idx].position =
                   IF integrated > road_length THEN integrated - road_length
                   ELSE integrated ]_vars

C3_Witness ==
  /\ TickDone
  /\ \E j \in Indices :
       /\ vehicles[j].driver_type # "OBSTACLE"
       /\ vehicles[j].position - (vehicles[j].velocity * dt) \div 10 < 0
       /\ vehicles[j].position < road_length

(* C4: every vehicle has 0 <= v <= 2 * desired_velocity in every state, and  *)
(* so after every tick, whether it took the normal or the distracted path    *)
C4_VelocityBounded ==
  \A j \in Indices :
    /\ vehicles[j].velocity >= 0
    /\ vehicles[j].velocity <= 2 * vehicles[j].desired_velocity

(* a tick has ended in which a vehicle, distracted for more than one tick,   *)
(* has been slowed down by the emergency deceleration                        *)
C4_Witness ==
  /\ TickDone
  /\ \E j \in Indices :
       /\ vehicles[j].is_distracted
       /\ vehicles[j].distraction_start_time < time - dt
       /\ vehicles[j].velocity < (7 * vehicles[j].desired_velocity) \div 10

EgoAtDecision == [vehicles'[idx] EXCEPT !.lane = vehicles[idx].lane]
VehiclesAtDecision == [vehicles EXCEPT ![idx] = EgoAtDecision]
LaneChanged == Updating /\ vehicles'[idx].lane # vehicles[idx].lane

(* C7: whenever a vehicle's lane changes, at that instant the gap to the     *)
(* target-lane leader is at least the ego's min_gap and the target-lane      *)
(* follower's IDM acceleration behind the ego is not below                   *)
(* -safe_deceleration of the ego                                             *)
C7_SafeAtLaneChange ==
  [][ LaneChanged =>
        LET ego    == EgoAtDecision
            vs     == VehiclesAtDecision
            target == vehicles'[idx].lane
            lead   == At(vs, find_lead(ego, vs, target, road_length))
            follow == At(vs, find_follow(ego, vs, target, road_length))
        IN  /\ IsNone(lead) \/
                 safe_gap_to_leader(ego, lead, road_length)
                   >= min_gap[ego.driver_type]
            /\ IsNone(follow) \/
                 idm_acceleration(follow, self_clone(ego, target), road_length)
                   >= -safe_deceleration[ego.driver_type] ]_vars

(* C8: in a tick in which a vehicle is distracted after the distraction      *)
(* refresh its lane is unchanged, and its velocity is unchanged unless the   *)
(* emergency-braking condition fired                                         *)
C8_DistractedHolds ==
  [][ (Updating /\ vehicles'[idx].is_distracted) =>
        LET self == vehicles[idx]
            lead == At(vehicles, find_lead(self, vehicles, self.lane, road_length))
        IN  /\ vehicles'[idx].lane = self.lane
            /\ \/ vehicles'[idx].velocity = self.velocity
               \/ /\ ~IsNone(lead)
                  /\ safe_gap_to_leader(self, lead, road_length)
                       < min_gap[self.driver_type] + self.velocity ]_vars

(* a distracted vehicle has gone through a whole tick with a free road       *)
C8_Witness ==
  /\ TickDone
  /\ \E j \in Indices :
       /\ vehicles[j].is_distracted
       /\ vehicles[j].distraction_start_time < time
       /\ vehicles[j].velocity = (7 * vehicles[j].desired_velocity) \div 10
       /\ vehicles[j].acceleration > 0

RECURSIVE IsSubSeq(_, _)
IsSubSeq(s, t) ==
  IF s = << >> THEN TRUE
  ELSE IF t = << >> THEN FALSE
  ELSE IF Head(s) = Head(t) THEN IsSubSeq(Tail(s), Tail(t))
  ELSE IsSubSeq(s, Tail(t))

DueEntries == {k \in 1..Len(scheduled_vehicles) :
                 scheduled_vehicles[k].deployment_time <= time}
FirstDue == CHOOSE k \in DueEntries : \A m \in DueEntries : k <= m

C10_SpawnConflictFree ==
  [][ (Deploying /\ Len(vehicles') = Len(vehicles) + 1) =>
        LET new == vehicles'[Len(vehicles')]
        IN  /\ new.position >= 0
            /\ new.position < road_length
            /\ \A j \in Indices :
                 vehicles[j].lane = new.lane =>
                   Abs(new.position - vehicles[j].position)
                     >= Max(vehicles[j].length, SpawnClearance) ]_vars

(* the entries of a queue that are not yet due, in queue order *)
NotDue(q, t) == SelectSeq(q, LAMBDA e : e.deployment_time > t)

(* C11: the deployment stage of a tick never raises, also when a due entry   *)
(* is dropped after 5 attempts; it takes only due entries out of the queue,  *)
(* keeps the order of the others, and a dropped entry adds no vehicle        *)
C11_DropContinues ==
  [][ Deploying =>
        /\ pc' = "update"
        /\ IsSubSeq(scheduled_vehicles', scheduled_vehicles)
        /\ NotDue(scheduled_vehicles', time) = NotDue(scheduled_vehicles, time)
        /\ Len(vehicles') - Len(vehicles) <= Len(scheduled_vehicles) - Len(scheduled_vehicles') ]_vars

(* the deployment stage is over and no vehicle has been integrated yet *)
TickStart == pc = "update" /\ idx = 1

(* C12: the acceleration every vehicle is integrated with in a tick is the   *)
(* IDM value computed from the positions, velocities and lanes all vehicles  *)
(* had before any vehicle of the tick was integrated                         *)
C12_TwoPhase ==
  TickStart =>
    LET after == update_from(vehicles, 1, dt, lanes_count, road_length, time)
    IN  \A j \in Indices :
          LET self == check_distraction(vehicles[j], time, FALSE, 0)
              lead == At(vehicles, find_lead(self, vehicles, self.lane, road_length))
          IN  after[j].acceleration = idm_acceleration(self, lead, road_length)

(* C13: the state a tick leaves behind is determined by the state it starts  *)
(* from: whatever the random draws of an update (distraction draw and        *)
(* duration, lane-change gate), two runs that agree before it agree after it *)
C13_Deterministic ==
  Updating =>
    \A d1, d2 \in BOOLEAN, g1, g2 \in BOOLEAN, u1, u2 \in DistractionDurations :
      update(vehicles, idx, dt, lanes_count, road_length, time, d1, u1, g1)
        = update(vehicles, idx, dt, lanes_count, road_length, time, d2, u2, g2)

CountOf(s, d) == Cardinality({j \in 1..Len(s) : s[j] = d})
Residual == n_vehicles - SumCounts([d \in DistributionTypes |->
                                      (driver_distribution[d] * n_vehicles) \div 100],
                                   Len(DistributionOrder))

(* C14: the constructed driver-type list has exactly n_vehicles entries,     *)
(* floor(p * n_vehicles) of every type other than NORMAL and                 *)
(* floor(p_NORMAL * n_vehicles) plus the residual of NORMAL                  *)
C14_DriverCounts ==
  pc = "constructed" =>
    /\ Len(driver_types) = n_vehicles
    /\ \A d \in DistributionTypes :
         CountOf(driver_types, d) =
           (driver_distribution[d] * n_vehicles) \div 100
             + (IF d = "NORMAL" THEN Residual ELSE 0)

(* C15: every call of run_step runs to its end, advances time by exactly dt  *)
(* and appends exactly one sample to average_speeds, so between calls        *)
(* time = n * dt and the series has length n                                 *)
C15_StepAdvances ==
  [][ /\ Deploying => pc' = "update"
      /\ (pc = "update" /\ pc' = "idle") =>
           /\ time' = time + dt
           /\ Len(average_speeds') = Len(average_speeds) + 1
      /\ pc = "idle" => time = Len(average_speeds) * dt ]_vars

RECURSIVE SumSeq(_, _)
SumSeq(q, n) == IF n = 0 THEN 0 ELSE q[n] + SumSeq(q, n - 1)

(* C16: after the n ticks of run_without_animation(n), n >= 1, the value     *)
(* returned is the average over the n ticks of the per-tick mean velocity,   *)
(* or -1 if there is no vehicle                                              *)
C16_ReturnsRunMean ==
  TickDone =>
    run_without_animation_result(vehicles) =
      IF Len(vehicles) = 0 THEN -1
      ELSE SumSeq(average_speeds, Len(average_speeds)) \div Len(average_speeds)

(* C17: a reset between two ticks, in any reachable state, completes and     *)
(* leaves time 0, lane-change counter 0, empty statistics, the pending queue *)
(* equal to the originally scheduled entries and n_vehicles newly            *)
(* initialised vehicles                                                      *)
C17_ResetRestores ==
  [][ Resetting =>
        /\ pc' = "idle"
        /\ time' = 0
        /\ lane_changes' = 0
        /\ average_speeds' = << >>
        /\ original_scheduled_vehicles.assigned
        /\ scheduled_vehicles' = original_scheduled_vehicles.value
        /\ Len(vehicles') = n_vehicles
        /\ \A j \in 1..Len(vehicles') :
             /\ vehicles'[j].id = j - 1
             /\ vehicles'[j].velocity = (7 * vehicles'[j].desired_velocity) \div 10
             /\ ~vehicles'[j].is_distracted ]_vars

(* the zones active in the tick that started at time t and the vehicles      *)
(* standing in a zone                                                        *)
ActiveZone(z, t) == z.spawn_time <= t /\ t < z.spawn_time + z.duration
InZone(v, z) == Abs(v.position - z.position) <= z.range

(* C18: after every tick in which a positional distraction is active, every  *)
(* non-obstacle vehicle within its range has v <= slowness * v0, for each    *)
(* of the active zones and so for the smallest cap                           *)
C18_ZoneCap ==
  TickDone =>
    \A k \in 1..Len(positional_distractions) :
      LET z == positional_distractions[k]
      IN  ActiveZone(z, time - dt) =>
            \A j \in Indices :
              (vehicles[j].driver_type # "OBSTACLE" /\ InZone(vehicles[j], z))
                => 10 * vehicles[j].velocity
                     <= z.slowness * vehicles[j].desired_velocity

Lanes == 0..(lanes_count - 1)
InLane(ego, lane) ==
  {c \in Indices : vehicles[c].id # ego.id /\ vehicles[c].lane = lane
                     /\ vehicles[c].is_active}

Offset(a, b) ==
  LET d == b.position - a.position
  IN  CHOOSE x \in {d - road_length, d, d + road_length} :
        /\ 2 * Abs(x) <= road_length
        /\ 2 * Abs(d) <= road_length => x = d

C20_UniqueIds ==
  \A u, w \in Indices : vehicles[u].id = vehicles[w].id => u = w

(* initial vehicles and deployed vehicles stand on the road together, and    *)
(* one of them has a neighbour in its own lane                               *)
C20_Witness ==
  /\ n_vehicles > 0
  /\ Len(vehicles) > n_vehicles + 1
  /\ \E j \in Indices :
       find_lead(vehicles[j], vehicles, vehicles[j].lane, road_length) # 0

(* the adjacent lanes that exist, those of them that pass the safety         *)
(* predicate, and the total advantage of a lane with the right-lane bias     *)
AdjacentLanes(ego) == {l \in Lanes : Abs(l - ego.lane) = 1}
SafeLanes(ego) ==
  {l \in AdjacentLanes(ego) :
     is_lane_change_safe(ego, At(vehicles, find_lead(ego, vehicles, l, road_length)),
                         At(vehicles, find_follow(ego, vehicles, l, road_length)),
                         road_length)}
TotalAdvantage(ego, l) ==
  calculate_lane_change_advantage(
      ego, ego.acceleration,
      At(vehicles, find_lead(ego, vehicles, ego.lane, road_length)),
      At(vehicles, find_follow(ego, vehicles, ego.lane, road_length)),
      At(vehicles, find_lead(ego, vehicles, l, road_length)),
      At(vehicles, find_follow(ego, vehicles, l, road_length)), l, road_length)
  + (IF l > ego.lane THEN right_bias[ego.driver_type] ELSE 0)
WorthLanes(ego) ==
  {l \in SafeLanes(ego) :
     TotalAdvantage(ego, l) > Max(0, changing_threshold[ego.driver_type])}
EvaluatesMobil(ego) == ego.driver_type # "OBSTACLE" /\ ~ego.is_distracted

(* C25: for an ego that evaluates MOBIL, mobil_decide_lane_change returns,   *)
(* among the existing adjacent lanes that pass the safety predicate, one     *)
(* with the greatest total advantage (right_bias added only for a lane index *)
(* greater than the current one) if that advantage is > max(0,               *)
(* changing_threshold), and the current lane otherwise; the returned lane    *)
(* differs from the current one by at most 1                                 *)
C25_MobilChoice ==
  \A j \in Indices :
    EvaluatesMobil(vehicles[j]) =>
      LET ego    == vehicles[j]
          result == mobil_decide_lane_change(ego, vehicles, lanes_count, road_length)
      IN  /\ Abs(result - ego.lane) <= 1
          /\ WorthLanes(ego) = {} => result = ego.lane
          /\ WorthLanes(ego) # {} =>
               /\ result \in WorthLanes(ego)
               /\ \A l \in SafeLanes(ego) :
                    TotalAdvantage(ego, result) >= TotalAdvantage(ego, l)

(* an ego has two adjacent lanes worth a change, with different advantages,  *)
(* and another ego has a safe adjacent lane that is not worth one            *)
C25_Witness ==
  /\ \E j \in Indices :
       /\ EvaluatesMobil(vehicles[j])
       /\ \E l, m \in WorthLanes(vehicles[j]) :
            TotalAdvantage(vehicles[j], l) > TotalAdvantage(vehicles[j], m)
  /\ \E j \in Indices :
       /\ EvaluatesMobil(vehicles[j])
       /\ SafeLanes(vehicles[j]) # WorthLanes(vehicles[j])

Placeable(e) ==
  /\ e.deployment_time <= time
  /\ ~find_spawn(vehicles, e.initial_position, e.lane, 0,
                 lanes_count, road_length).overlap
FirstPlaceable ==
  CHOOSE k \in 1..Len(scheduled_vehicles) :
    /\ Placeable(scheduled_vehicles[k])
    /\ \A m \in 1..(k - 1) : ~Placeable(scheduled_vehicles[m])
Suffix(q, n) == SubSeq(q, Len(q) - n + 1, Len(q))

(* C27: the deployment stage of a tick adds at most one vehicle; when it has *)
(* deployed an entry it stops, and the entries behind the deployed one, due  *)
(* or not, are still at the end of the pending queue                         *)
C27_OnePerTick ==
  [][ Deploying =>
        /\ Len(vehicles') <= Len(vehicles) + 1
        /\ Len(vehicles') = Len(vehicles) + 1 =>
             LET behind == Len(scheduled_vehicles) - FirstPlaceable
             IN  /\ Len(scheduled_vehicles') >= behind
                 /\ Suffix(scheduled_vehicles', behind)
                      = Suffix(scheduled_vehicles, behind) ]_vars

(* C24: whenever a vehicle is updated in the tick at time t, and so queries  *)
(* its neighbourhood for IDM and MOBIL, every obstacle other than itself is  *)
(* active exactly when obstacle_start_time <= t < obstacle_end_time,         *)
(* whatever the places of the vehicle and the obstacle in the list           *)
C24_ObstacleWindow ==
  (Updating /\ vehicles[idx].driver_type # "OBSTACLE") =>
    \A j \in Indices :
      (j # idx /\ vehicles[j].driver_type = "OBSTACLE") =>
        (vehicles[j].is_active <=>
           (vehicles[j].obstacle_start_time <= time /\ time < vehicles[j].obstacle_end_time))

(* C22: in the tick executed at a time t >= distraction_start_time +         *)
(* distraction_duration a distracted vehicle's is_distracted is cleared, so  *)
(* a vehicle that is distracted when a tick has ended is in an episode of 3  *)
(* to 5 s that the time of that tick had not yet outlasted                   *)
C22_EpisodeEnds ==
  [][ time' # time =>
        \A j \in Indices :
          /\ (vehicles[j].is_distracted /\
                time >= vehicles[j].distraction_start_time
                          + vehicles[j].distraction_duration)
               => ~vehicles'[j].is_distracted
          /\ vehicles'[j].is_distracted =>
               /\ vehicles'[j].distraction_duration >= 30
               /\ vehicles'[j].distraction_duration <= 50
               /\ time < vehicles'[j].distraction_start_time
                           + vehicles'[j].distraction_duration ]_vars

(* an episode has begun, has run its time and has ended, and a later tick    *)
(* has been executed                                                         *)
C22_Witness ==
  \E j \in Indices :
    /\ ~vehicles[j].is_distracted
    /\ vehicles[j].distraction_duration > 0
    /\ time - dt > vehicles[j].distraction_start_time + vehicles[j].distraction_duration

(* C23: a tick in which the onset is drawn for a vehicle (its                *)
(* last_distraction_check is set to the time of the tick) comes at least     *)
(* 1.0 s after the previous draw, for every dt; a distraction begins only in *)
(* such a tick; and a vehicle with can_be_distracted false or of type        *)
(* OBSTACLE is never distracted                                              *)
C23_DrawInterval ==
  [][ \A j \in Indices :
        /\ vehicles'[j].last_distraction_check # vehicles[j].last_distraction_check =>
             /\ vehicles'[j].last_distraction_check = time
             /\ time - vehicles[j].last_distraction_check >= 10
        /\ (vehicles'[j].is_distracted /\ ~vehicles[j].is_distracted) =>
             vehicles'[j].last_distraction_check = time
        /\ (vehicles[j].driver_type = "OBSTACLE" \/ ~vehicles[j].can_be_distracted) =>
             /\ ~vehicles[j].is_distracted
             /\ ~vehicles'[j].is_distracted ]_vars

(* with a time step that does not divide 1.0 s a vehicle has had its third   *)
(* draw or a later one                                                       *)
C23_Witness ==
  /\ dt = 7
  /\ \E j \in Indices : vehicles[j].last_distraction_check >= 42

(* the options new_world accepts: road_length > 0, lanes_count >= 1,         *)
(* n_vehicles >= 0, dt > 0, five non-negative fractions summing to 1 +- 0.01 *)
ValidConfiguration ==
  /\ road_length > 0
  /\ lanes_count >= 1
  /\ n_vehicles >= 0
  /\ dt > 0
  /\ valid_distribution(driver_distribution)

(* C21: no world is created from an invalid configuration: a constructor     *)
(* call that comes to its end was given a valid one                          *)
C21_InvalidRejected ==
  pc = "constructed" => ValidConfiguration

NoTwoTooClose ==
  \A u, w \in Indices :
    (u # w /\ vehicles[u].lane = vehicles[w].lane) =>
      Abs(vehicles[u].position - vehicles[w].position)
        >= Max(vehicles[u].length, 1000)

(* C28: for n_vehicles >= 0, road_length > 0 and lanes_count >= 1 the        *)
(* construction comes to its end, with exactly n_vehicles vehicles of which  *)
(* no two in the same lane are closer than max(length, 10 m)                 *)
C28_PlacementTerminates ==
  (pc = "new" /\ n_vehicles >= 0 /\ road_length > 0 /\ lanes_count >= 1)
    ~> (pc = "constructed" /\ Len(vehicles) = n_vehicles /\ NoTwoTooClose)

(* the entries of the lane lists of the Simulation object: lane and place *)
LaneEntries ==
  UNION { {<< lane, k >> : k \in 1..Len(simulation.cars[lane])} :
          lane \in 1..simulation.num_lanes }

CarAt(e) == simulation.objects[simulation.cars[e[1]][e[2]]]

(* the entries of the same lane list that stand ahead of the entry e *)
AheadOf(e) ==
  {f \in LaneEntries : f[1] = e[1] /\ f # e /\ CarAt(f).position > CarAt(e).position}

(* C29: in the lane-list Simulation every lane list is in ascending order of *)
(* position, every car of a list is in the list of its own lane and in no    *)
(* other place, and find_leading_car gives the nearest car ahead in the lane *)
(* or None when there is none (a car standing at the same position counts as *)
(* either).                                                                  *)
C29_LaneListsOrdered ==
  simulation.num_lanes > 0 =>
    \A e \in LaneEntries :
       /\ e[2] > 1 => CarAt(<< e[1], e[2] - 1 >>).position <= CarAt(e).position
       /\ CarAt(e).lane = e[1]
       /\ Occurrences(simulation, simulation.cars[e[1]][e[2]]) = 1
       /\ LET leading_car == find_leading_car(simulation, simulation.cars[e[1]][e[2]])
          IN  IF AheadOf(e) = {}
              THEN \/ leading_car = NoCar
                   \/ simulation.objects[leading_car].position = CarAt(e).position
              ELSE /\ leading_car # NoCar
                   /\ simulation.objects[leading_car].position >= CarAt(e).position
                   /\ \A f \in AheadOf(e) :
                        simulation.objects[leading_car].position <= CarAt(f).position

(* the time at which the k-th artificial car is due: the sum of the inflow   *)
(* times up to it                                                            *)
RECURSIVE CumulativeInflowTime(_)
CumulativeInflowTime(k) ==
  IF k = 0 THEN 0
  ELSE CumulativeInflowTime(k - 1) + simulation.artificial_cars[k].inflow_time

(* C30: run with artificial cars, the Simulation adds the k-th car to a lane *)
(* list in the update that reaches its cumulative inflow time, once, and in  *)
(* no other update: nothing is added after the last car and no car object    *)
(* stands twice in the lane lists.                                           *)
C30_ArtificialAddedOnce ==
  [][ Len(simulation.artificial_cars) > 0 =>
        \A k \in 1..Len(simulation.artificial_cars) :
           LET c   == simulation.artificial_cars[k].car
               due == /\ simulation.time < CumulativeInflowTime(k)
                      /\ simulation'.time >= CumulativeInflowTime(k)
           IN  /\ Occurrences(simulation', c) <= 1
               /\ due => Occurrences(simulation', c) = 1
               /\ ~due => Occurrences(simulation', c) <= Occurrences(simulation, c) ]_vars


====
